---- MODULE Spec2Model ----
(***************************************************************************)
(* Model of libkonadl.py (class konadl): the crawl() controller, the page  *)
(* crawler and image downloader worker threads, the two queue.Queue        *)
(* objects with their unfinished_tasks accounting, and the progress files  *)
(* written by save_queues / save_metadata and parsed by read_queues /      *)
(* read_metadata.                                                          *)
(*                                                                         *)
(* Strings are sequences of tokens (a token is a character or an           *)
(* indivisible word such as "https:" or "safe"), so that formatting a      *)
(* record and splitting it again are computed, not assumed.                *)
(***************************************************************************)
EXTENDS Integers, Sequences, FiniteSets, TLC

\* ------------------------------------------------------------------ bounds
\* self.pages: number of listing pages requested
Pages == 2
\* self.post_crawler_threads_amount, as run in the model
PostCrawlers == 1
\* self.downloader_threads_amount, as run in the model
Downloaders == 2
\* failing responses and exceptions the environment injects in a run that
\* can be interrupted
MaxFail == 1
\* the same, in a run that is not interrupted
MaxFailQuiet == 2
\* longest queue drawn for the save/read round trip
MaxQueue == 2
\* image requests made in a run (a job can be put back without end)
MaxAttempts == 4
\* get_total_pages(): listing pages the site has when update() runs
TotalPages == 3
\* failing responses and exceptions the environment injects in a run of update()
MaxFailUpdate == 1

PWorkers == 1..PostCrawlers
DWorkers == 1..Downloaders

\* ------------------------------------------------------------ string helpers
Digits == <<"0", "1", "2", "3", "4", "5", "6", "7", "8", "9">>

IsDigit(t) == \E d \in 1..10 : Digits[d] = t

DigitVal(t) == (CHOOSE d \in 1..10 : Digits[d] = t) - 1

\* str(n) for an int n >= 0
RECURSIVE DecStr(_)
DecStr(n) == IF n < 10 THEN <<Digits[n + 1]>>
             ELSE DecStr(n \div 10) \o <<Digits[(n % 10) + 1]>>

\* str.strip('\n'): newlines removed at both ends
RECURSIVE StripNL(_)
StripNL(s) == IF s = <<>> THEN s
              ELSE IF Head(s) = "\n" THEN StripNL(Tail(s))
              ELSE IF s[Len(s)] = "\n" THEN StripNL(SubSeq(s, 1, Len(s) - 1))
              ELSE s

\* int(s) succeeds: decimal digits, surrounding newlines ignored
IntOk(s) == LET t == StripNL(s)
            IN  t # <<>> /\ \A i \in 1..Len(t) : IsDigit(t[i])

RECURSIVE DigitsVal(_)
DigitsVal(t) == IF t = <<>> THEN 0
                ELSE 10 * DigitsVal(SubSeq(t, 1, Len(t) - 1)) + DigitVal(t[Len(t)])

\* int(s) for a string that IntOk accepts
ParseInt(s) == DigitsVal(StripNL(s))

\* s.split(sep): the fields of s between occurrences of the token sep
RECURSIVE Split(_, _)
Split(s, sep) ==
    IF \A i \in 1..Len(s) : s[i] # sep THEN <<s>>
    ELSE LET k == CHOOSE i \in 1..Len(s) :
                      s[i] = sep /\ \A j \in 1..(i - 1) : s[j] # sep
         IN  <<SubSeq(s, 1, k - 1)>> \o Split(SubSeq(s, k + 1, Len(s)), sep)

\* iteration over a text file: lines, each keeping its trailing newline
RECURSIVE FileLines(_)
FileLines(f) ==
    IF f = <<>> THEN <<>>
    ELSE IF \A i \in 1..Len(f) : f[i] # "\n" THEN <<f>>
    ELSE LET k == CHOOSE i \in 1..Len(f) :
                      f[i] = "\n" /\ \A j \in 1..(i - 1) : f[j] # "\n"
         IN  <<SubSeq(f, 1, k)>> \o FileLines(SubSeq(f, k + 1, Len(f)))

\* s.replace(old, new) for token strings, leftmost first, non-overlapping
RECURSIVE Replace(_, _, _)
Replace(s, old, new) ==
    IF Len(s) < Len(old) THEN s
    ELSE IF SubSeq(s, 1, Len(old)) = old
         THEN new \o Replace(SubSeq(s, Len(old) + 1, Len(s)), old, new)
         ELSE <<Head(s)>> \o Replace(Tail(s), old, new)

Last(s) == s[Len(s)]

RangeOf(s) == {s[i] : i \in 1..Len(s)}

\* --------------------------------------------------------- the site (external)
\* The listing pages served by the site: each post has an id, the alt text of
\* its thumbnail (which carries the rating) and the href of its direct link.
Names == <<"a", "b", "c", "d", "e">>

Listing(p) ==
    IF p = 1
    THEN << [id |-> <<"p", "9">>, alt |-> <<"Rating: Safe">>,
             href |-> <<"/", "k", "%20", "-", "%20", "a">>],
            [id |-> <<"p", "8">>, alt |-> <<"Rating: Explicit">>,
             href |-> <<"https:", "/", "x">>] >>
    ELSE IF p = 3
    THEN << [id |-> <<"p", "7">>, alt |-> <<"Rating: Questionable", "Score: 1">>,
             href |-> <<"/", "q">>],
            [id |-> <<"p", "6">>, alt |-> <<"Rating: Explicit">>,
             href |-> <<"https:", "/", "e">>] >>
    ELSE << [id |-> <<"p", Names[p]>>, alt |-> <<"Rating: Safe">>,
             href |-> <<"https:", "/", Names[p]>>] >>

\* ------------------------------------------------------------- conversions
\* the if/elif chain with the flags of two branches exchanged
PostRatingSwapped(alt, flags) ==
    IF "Rating: Safe" \in RangeOf(alt) /\ flags.safe THEN <<"safe">>
    ELSE IF "Rating: Questionable" \in RangeOf(alt) /\ flags.explicit
         THEN <<"questionable">>
    ELSE IF "Rating: Explicit" \in RangeOf(alt) /\ flags.questionable
         THEN <<"explicit">>
    ELSE <<>>

\* the rating chosen by the if/elif chain over the alt text and the flags
PostRating(alt, flags) ==
    IF "Rating: Safe" \in RangeOf(alt) /\ flags.safe THEN <<"safe">>
    ELSE IF "Rating: Questionable" \in RangeOf(alt) /\ flags.questionable
         THEN <<"questionable">>
    ELSE IF "Rating: Explicit" \in RangeOf(alt) /\ flags.explicit
         THEN <<"explicit">>
    ELSE <<>>

\* the url of a post: 'https:' is prepended when the href lacks it
PostUrl(href) == IF "https:" \in RangeOf(href) THEN href ELSE <<"https:">> \o href

\* the tuple put on download_queue for an accepted post
Job(url, page, rating) ==
    [kind |-> "job", url |-> url, page |-> page, rating |-> rating]

PostJob(post, page, flags) == Job(PostUrl(post.href), page, PostRating(post.alt, flags))

\* a page number put on post_queue
PageJob(page) == [kind |-> "job", page |-> page]

\* the exit signals: None on post_queue, (None, None, None) on download_queue
NoneItem == [kind |-> "None"]

\* url.split("/")[-1].replace('%20', '_').replace('_-_', '_')
FileName(url) ==
    Replace(Replace(Last(Split(url, "/")), <<"%20">>, <<"_">>),
            <<"_", "-", "_">>, <<"_">>)

\* self.separate: images are stored in one folder per rating
separate == FALSE

\* '{}{}{}'.format(self.storage, subfolder, file_name), relative to storage
FilePath(job) ==
    (IF separate THEN job.rating \o <<"/">> ELSE <<>>) \o FileName(job.url)

\* one record of download_queue.progress: '{}|{}|{}\n'.format(link, str(page), rating)
DownloadLine(item) ==
    IF item.kind = "None"
    THEN <<"None", "|", "None", "|", "None", "\n">>
    ELSE item.url \o <<"|">> \o DecStr(item.page) \o <<"|">> \o item.rating \o <<"\n">>

\* one record of post_queue.progress: '{}\n'.format(page)
PostLine(item) ==
    IF item.kind = "None" THEN <<"None", "\n">> ELSE DecStr(item.page) \o <<"\n">>

\* read_queues over the lines of download_queue.progress: the tuples put on the
\* queue, and how the loop ended (IndexError is not among the caught exceptions)
RECURSIVE ReadDownloadLines(_)
ReadDownloadLines(lines) ==
    IF lines = <<>> THEN [status |-> "ok", items |-> <<>>]
    ELSE LET f == Split(Head(lines), "|")
         IN  IF Len(f) < 2 THEN [status |-> "IndexError", items |-> <<>>]
             ELSE IF ~IntOk(f[2]) THEN [status |-> "ValueError", items |-> <<>>]
             ELSE IF Len(f) < 3 THEN [status |-> "IndexError", items |-> <<>>]
             ELSE LET rest == ReadDownloadLines(Tail(lines))
                  IN  [status |-> rest.status,
                       items |-> <<Job(f[1], ParseInt(f[2]), StripNL(f[3]))>>
                                     \o rest.items]

\* read_queues over the lines of post_queue.progress
RECURSIVE ReadPostLines(_)
ReadPostLines(lines) ==
    IF lines = <<>> THEN [status |-> "ok", items |-> <<>>]
    ELSE IF ~IntOk(Head(lines)) THEN [status |-> "ValueError", items |-> <<>>]
    ELSE LET rest == ReadPostLines(Tail(lines))
         IN  [status |-> rest.status,
              items |-> <<PageJob(ParseInt(Head(lines)))>> \o rest.items]

\* str(int(flag)) and bool(int(text)) of the RATINGS section
FlagStr(b) == IF b THEN <<"1">> ELSE <<"0">>

StrFlag(s) == ParseInt(s) # 0

\* the id of the newest post whose rating is wanted (get_newest_image_id)
RECURSIVE FirstWanted(_, _)
FirstWanted(posts, flags) ==
    IF posts = <<>> THEN <<"None">>
    ELSE IF PostRating(Head(posts).alt, flags) # <<>> THEN Head(posts).id
    ELSE FirstWanted(Tail(posts), flags)

NewestImageId(flags) == FirstWanted(Listing(1), flags)

\* ------------------------------------------------------------------- state
VARIABLES
    c_pc,             \* where the main thread is in crawl()
    c_i,              \* page_num of the loop that puts the pages
    c_n,              \* turns done by the main thread's current inner loop
    result,           \* what crawl() returned: "none" until it returns
    job_done,         \* self.job_done
    ratings,          \* self.safe, self.questionable, self.explicit
    total_downloads,  \* self.total_downloads
    current_newest_id,\* self.current_newest_id
    previous_newest_id,\* self.previous_newest_id
    post_queue,       \* self.post_queue: the items not yet taken
    post_unfinished,  \* self.post_queue.unfinished_tasks
    download_queue,   \* self.download_queue: the items not yet taken
    dl_unfinished,    \* self.download_queue.unfinished_tasks
    p_pc, p_page, p_idx, p_raise,   \* page crawler threads
    d_pc, d_job, d_tmp, d_raise,    \* downloader threads
    files,            \* image files under storage: {[path, kind]}
    errors_log,       \* errors.log: the records appended
    dl_file,          \* download_queue.progress: [present, text]
    post_file,        \* post_queue.progress: [present, text]
    metadata,         \* metadata.progress
    faults_left,      \* failures the environment may still inject
    pushed,           \* history: download jobs ever put by a crawler
    crawled,          \* history: pages whose processing reached task_done
    stats,            \* history: per url, attempts by outcome
    int_post,         \* history: post_queue when save began / interrupt came
    int_dl,           \* history: download_queue at that moment
    update_pushed     \* history: the jobs put by crawl_new_images, in order

vars == <<c_pc, c_i, c_n, result, job_done, ratings, total_downloads,
          current_newest_id, post_queue, post_unfinished, download_queue,
          dl_unfinished, p_pc, p_page, p_idx, p_raise, d_pc, d_job, d_tmp,
          d_raise, files, errors_log, dl_file, post_file, metadata, faults_left,
          pushed, crawled, stats, int_post, int_dl, previous_newest_id,
          update_pushed>>

coord == <<c_pc, c_i, c_n, result, job_done>>
pvars == <<p_pc, p_page, p_idx, p_raise>>
dvars == <<d_pc, d_job, d_tmp, d_raise>>
disk  == <<dl_file, post_file, metadata>>
hist  == <<pushed, crawled, stats, int_post, int_dl>>
upd   == <<current_newest_id, previous_newest_id, update_pushed>>

\* every url a crawler can put on the download queue
SitePages == IF Pages > TotalPages THEN Pages ELSE TotalPages

SiteUrls ==
    UNION {{PostUrl(Listing(p)[k].href) : k \in 1..Len(Listing(p))} :
              p \in 1..SitePages}

NoFile == [present |-> FALSE, text |-> <<>>]

NoMetadata ==
    [present |-> FALSE, safe |-> <<>>, questionable |-> <<>>, explicit |-> <<>>,
     total_downloads |-> <<>>, time_elapsed |-> <<>>, previous_newest_id |-> <<>>]

NoJob == Job(<<>>, 0, <<>>)

\* __init__ (the defaults of a new konadl object) and the head of crawl(): the
\* queues are created and hold pq and dq, the main thread is at `pc`, every
\* worker thread at `tpc`, and the environment may inject `limit` failures
StartWith(pc, tpc, limit, pq, dq, dlf, pof, md) ==
    /\ c_pc = pc
    /\ c_i = 1
    /\ c_n = 0
    /\ result = "none"
    /\ job_done = FALSE
    /\ ratings = [safe |-> TRUE, questionable |-> FALSE, explicit |-> FALSE]
    /\ total_downloads = 0
    /\ current_newest_id = NewestImageId(ratings)
    /\ previous_newest_id = <<"False">>
    /\ update_pushed = <<>>
    /\ post_queue = pq
    /\ post_unfinished = Len(pq)
    /\ download_queue = dq
    /\ dl_unfinished = Len(dq)
    /\ p_pc = [w \in PWorkers |-> tpc]
    /\ p_page = [w \in PWorkers |-> 0]
    /\ p_idx = [w \in PWorkers |-> 0]
    /\ p_raise = [w \in PWorkers |-> FALSE]
    /\ d_pc = [w \in DWorkers |-> tpc]
    /\ d_job = [w \in DWorkers |-> NoJob]
    /\ d_tmp = [w \in DWorkers |-> 0]
    /\ d_raise = [w \in DWorkers |-> FALSE]
    /\ files = {}
    /\ errors_log = <<>>
    /\ dl_file = dlf
    /\ post_file = pof
    /\ metadata = md
    /\ faults_left = limit
    /\ pushed = {}
    /\ crawled = {}
    /\ stats = [u \in SiteUrls |-> [ok |-> 0, mismatch |-> 0, other |-> 0, inc |-> 0]]
    /\ int_post = pq
    /\ int_dl = dq

\* the same on a storage folder that holds no progress file
Start(pc, tpc, limit, pq, dq) ==
    StartWith(pc, tpc, limit, pq, dq, NoFile, NoFile, NoMetadata)

\* crawl() with load_progress False, after the threads have been started
Init == Start("seed", "get", MaxFail, <<>>, <<>>)

\* write_traceback: one record appended to errors.log, with its URL= line (when
\* a url is given) and its PAGE= line; the log is kept as the number of
\* records of each kind
LogAppend(log, url, page) ==
    LET e == [url |-> url, page |-> page]
    IN  IF e \in DOMAIN log THEN [log EXCEPT ![e] = @ + 1] ELSE log @@ (e :> 1)

\* ------------------------------------------------------ page crawler threads
\* the responses the site can give to one page request
PageOutcomes ==
    IF faults_left > 0 THEN {"ok", "neterr", "http_error", "other_status"}
    ELSE {"ok"}

\* page = post_queue.get(); None ends the thread. Otherwise requests.get of
\* the listing page and the test of its status code
PGet(w) ==
    /\ p_pc[w] = "get"
    /\ post_queue # <<>>
    /\ post_queue' = Tail(post_queue)
    /\ IF Head(post_queue).kind = "None"
       THEN /\ p_pc' = [p_pc EXCEPT ![w] = "exited"]
            /\ UNCHANGED <<p_page, p_idx, p_raise, faults_left>>
       ELSE \E o \in PageOutcomes :
            /\ faults_left' = IF o = "ok" THEN faults_left ELSE faults_left - 1
            /\ p_page' = [p_page EXCEPT ![w] = Head(post_queue).page]
            /\ p_pc' = [p_pc EXCEPT ![w] =
                           CASE o = "ok" -> "parse"
                             [] o = "neterr" -> "exc_done"
                             [] OTHER -> "nonok_done"]
            /\ p_raise' = [p_raise EXCEPT ![w] = (o = "http_error")]
            /\ p_idx' = [p_idx EXCEPT ![w] = 1]
    /\ UNCHANGED <<coord, ratings, total_downloads, upd,
                   post_unfinished, download_queue, dl_unfinished,
                   dvars, files, errors_log, disk, hist>>

\* status not ok: post_queue.task_done(); it raises ValueError when nothing is
\* unfinished, which the except Exception clause catches
PNonOkTaskDone(w) ==
    /\ p_pc[w] = "nonok_done"
    /\ IF post_unfinished > 0
       THEN /\ post_unfinished' = post_unfinished - 1
            /\ p_pc' = [p_pc EXCEPT ![w] = "nonok_put"]
       ELSE /\ p_pc' = [p_pc EXCEPT ![w] = "exc_done"]
            /\ UNCHANGED post_unfinished
    /\ UNCHANGED <<coord, ratings, total_downloads, upd, post_queue,
                   download_queue, dl_unfinished, p_page, p_idx, p_raise, dvars,
                   files, errors_log, disk, faults_left, hist>>

\* status not ok: post_queue.put(page), then raise_for_status(): it raises
\* HTTPError for 4xx and 5xx only (the handler logs the page and the loop
\* starts over); for another status the worker goes on to parse the body
PNonOkPut(w) ==
    /\ p_pc[w] = "nonok_put"
    /\ post_queue' = Append(post_queue, PageJob(p_page[w]))
    /\ post_unfinished' = post_unfinished + 1
    /\ IF p_raise[w]
       THEN /\ errors_log' = LogAppend(errors_log, <<>>, p_page[w])
            /\ p_pc' = [p_pc EXCEPT ![w] = "get"]
            /\ p_page' = [p_page EXCEPT ![w] = 0]
            /\ p_idx' = [p_idx EXCEPT ![w] = 0]
            /\ p_raise' = [p_raise EXCEPT ![w] = FALSE]
       ELSE /\ p_pc' = [p_pc EXCEPT ![w] = "parse"]
            /\ UNCHANGED <<errors_log, p_page, p_idx, p_raise>>
    /\ UNCHANGED <<coord, ratings, total_downloads, upd,
                   download_queue, dl_unfinished, dvars, files, disk, faults_left, hist>>

\* one turn of "for post in posts": the rating is chosen and an accepted post
\* is put on the download queue; a post that cannot be parsed raises
PParsePost(w) ==
    /\ p_pc[w] = "parse"
    /\ p_idx[w] <= Len(Listing(p_page[w]))
    /\ \E bad \in (IF faults_left > 0 THEN BOOLEAN ELSE {FALSE}) :
        IF bad
        THEN /\ faults_left' = faults_left - 1
             /\ p_pc' = [p_pc EXCEPT ![w] = "exc_done"]
             /\ UNCHANGED <<download_queue, dl_unfinished, p_idx, pushed>>
        ELSE LET post == Listing(p_page[w])[p_idx[w]]
                 job  == PostJob(post, p_page[w], ratings)
             IN  /\ IF job.rating # <<>>
                    THEN /\ download_queue' = Append(download_queue, job)
                         /\ dl_unfinished' = dl_unfinished + 1
                         /\ pushed' = pushed \cup {job}
                    ELSE UNCHANGED <<download_queue, dl_unfinished, pushed>>
                 /\ p_idx' = [p_idx EXCEPT ![w] = p_idx[w] + 1]
                 /\ UNCHANGED <<faults_left, p_pc>>
    /\ UNCHANGED <<coord, ratings, total_downloads, upd, post_queue,
                   post_unfinished, p_page, p_raise, dvars, files, errors_log,
                   disk, crawled, stats, int_post, int_dl>>

\* after the loop: post_queue.task_done()
PTaskDone(w) ==
    /\ p_pc[w] = "parse"
    /\ p_idx[w] > Len(Listing(p_page[w]))
    /\ crawled' = crawled \cup {p_page[w]}
    /\ IF post_unfinished > 0
       THEN /\ post_unfinished' = post_unfinished - 1
            /\ p_pc' = [p_pc EXCEPT ![w] = "get"]
            /\ p_page' = [p_page EXCEPT ![w] = 0]
            /\ p_idx' = [p_idx EXCEPT ![w] = 0]
            /\ p_raise' = [p_raise EXCEPT ![w] = FALSE]
       ELSE /\ p_pc' = [p_pc EXCEPT ![w] = "exc_done"]
            /\ UNCHANGED <<post_unfinished, p_page, p_idx, p_raise>>
    /\ UNCHANGED <<coord, ratings, total_downloads, upd, post_queue,
                   download_queue, dl_unfinished, dvars,
                   files, errors_log, disk, faults_left, pushed, stats, int_post, int_dl>>

\* except Exception: write_traceback(page=page), then post_queue.task_done();
\* a ValueError raised here leaves the loop and ends the thread
PExceptTaskDone(w) ==
    /\ p_pc[w] = "exc_done"
    /\ errors_log' = LogAppend(errors_log, <<>>, p_page[w])
    /\ IF post_unfinished > 0
       THEN /\ post_unfinished' = post_unfinished - 1
            /\ p_pc' = [p_pc EXCEPT ![w] = "exc_put"]
       ELSE /\ p_pc' = [p_pc EXCEPT ![w] = "crashed"]
            /\ UNCHANGED post_unfinished
    /\ UNCHANGED <<coord, ratings, total_downloads, upd, post_queue,
                   download_queue, dl_unfinished, p_page, p_idx, p_raise, dvars,
                   files, disk, faults_left, hist>>

\* except Exception: post_queue.put(page)
PExceptPut(w) ==
    /\ p_pc[w] = "exc_put"
    /\ post_queue' = Append(post_queue, PageJob(p_page[w]))
    /\ post_unfinished' = post_unfinished + 1
    /\ p_pc' = [p_pc EXCEPT ![w] = "get"]
    /\ p_page' = [p_page EXCEPT ![w] = 0]
    /\ p_idx' = [p_idx EXCEPT ![w] = 0]
    /\ p_raise' = [p_raise EXCEPT ![w] = FALSE]
    /\ UNCHANGED <<coord, ratings, total_downloads, upd,
                   download_queue, dl_unfinished, dvars,
                   files, errors_log, disk, faults_left, hist>>

crawl_post_page_worker(w) ==
    \/ PGet(w) \/ PNonOkTaskDone(w) \/ PNonOkPut(w)
    \/ PParsePost(w) \/ PTaskDone(w) \/ PExceptTaskDone(w) \/ PExceptPut(w)

\* --------------------------------------------------------- downloader threads
\* the responses the image server can give to one request: a full image, a
\* body shorter than the declared content-length, no response at all, a 4xx or
\* 5xx status, or another status that is not 200
DownloadOutcomes ==
    IF faults_left > 0
    THEN {"ok", "mismatch", "neterr", "http_error", "other_status"}
    ELSE {"ok"}

\* what open(file_path, 'wb') and file.write leave on disk for a response
WrittenKind(o) ==
    CASE o = "ok" -> "image"
      [] o = "mismatch" -> "partial"
      [] OTHER -> "error_body"

WriteFile(fs, path, kind) ==
    {f \in fs : f.path # path} \cup {[path |-> path, kind |-> kind]}

\* if os.path.isfile(file_path): os.remove(file_path)
RemoveFile(fs, path) == {f \in fs : f.path # path}

Bump(st, url, field) ==
    IF url \in DOMAIN st
    THEN [st EXCEPT ![url] = [st[url] EXCEPT ![field] = st[url][field] + 1]]
    ELSE st

\* the image requests made so far
RECURSIVE SumOver(_, _)
SumOver(st, urls) ==
    IF urls = {} THEN 0
    ELSE LET u == CHOOSE x \in urls : TRUE
         IN  st[u].ok + st[u].mismatch + st[u].other + SumOver(st, urls \ {u})

Attempts(st) == SumOver(st, DOMAIN st)

RECURSIVE SumOk(_, _)
SumOk(st, urls) ==
    IF urls = {} THEN 0
    ELSE LET u == CHOOSE x \in urls : TRUE
         IN  st[u].ok + SumOk(st, urls \ {u})

\* the worker is back at the top of its loop
DIdle(w, pc) ==
    /\ d_pc' = [d_pc EXCEPT ![w] = pc]
    /\ d_job' = [d_job EXCEPT ![w] = NoJob]
    /\ d_tmp' = [d_tmp EXCEPT ![w] = 0]
    /\ d_raise' = [d_raise EXCEPT ![w] = FALSE]

\* url, page, rating = download_queue.get(); a None url ends the thread.
\* Otherwise requests.get(url), the write of the body to file_path, the
\* comparison with content-length and the test of the status code
DGet(w) ==
    /\ d_pc[w] = "get"
    /\ download_queue # <<>>
    /\ Head(download_queue).kind = "None" \/ Attempts(stats) < MaxAttempts
    /\ download_queue' = Tail(download_queue)
    /\ IF Head(download_queue).kind = "None"
       THEN /\ d_pc' = [d_pc EXCEPT ![w] = "exited"]
            /\ UNCHANGED <<d_job, d_raise, faults_left, files, stats>>
       ELSE \E o \in DownloadOutcomes :
            LET job == Head(download_queue)
            IN  /\ d_job' = [d_job EXCEPT ![w] = job]
                /\ faults_left' = IF o = "ok" THEN faults_left ELSE faults_left - 1
                /\ files' = IF o = "neterr" THEN files
                            ELSE WriteFile(files, FilePath(job), WrittenKind(o))
                /\ d_pc' = [d_pc EXCEPT ![w] =
                               CASE o = "ok" -> "inc_read"
                                 [] o \in {"mismatch", "neterr"} -> "exc_done"
                                 [] OTHER -> "nonok_done"]
                /\ d_raise' = [d_raise EXCEPT ![w] = (o = "http_error")]
                /\ stats' = Bump(stats, job.url,
                                 CASE o = "ok" -> "ok"
                                   [] o = "mismatch" -> "mismatch"
                                   [] OTHER -> "other")
    /\ UNCHANGED <<coord, ratings, total_downloads, upd, post_queue,
                   post_unfinished, dl_unfinished, pvars, d_tmp,
                   errors_log, disk, pushed, crawled, int_post, int_dl>>

\* status not ok: download_queue.task_done()
DNonOkTaskDone(w) ==
    /\ d_pc[w] = "nonok_done"
    /\ IF dl_unfinished > 0
       THEN /\ dl_unfinished' = dl_unfinished - 1
            /\ d_pc' = [d_pc EXCEPT ![w] = "nonok_put"]
       ELSE /\ d_pc' = [d_pc EXCEPT ![w] = "exc_done"]
            /\ UNCHANGED dl_unfinished
    /\ UNCHANGED <<coord, ratings, total_downloads, upd, post_queue,
                   post_unfinished, download_queue, pvars, d_job, d_tmp, d_raise,
                   files, errors_log, disk, faults_left, hist>>

\* status not ok: download_queue.put((url, page, rating))
DNonOkPut(w) ==
    /\ d_pc[w] = "nonok_put"
    /\ download_queue' = Append(download_queue, d_job[w])
    /\ dl_unfinished' = dl_unfinished + 1
    /\ d_pc' = [d_pc EXCEPT ![w] = "nonok_remove"]
    /\ UNCHANGED <<coord, ratings, total_downloads, upd, post_queue,
                   post_unfinished, pvars, d_job, d_tmp, d_raise, files,
                   errors_log, disk, faults_left, hist>>

\* status not ok: the file is removed and raise_for_status() is called; it
\* raises HTTPError for 4xx and 5xx only (the handler logs the page), for
\* another status the worker goes on to the statements after the elif
DNonOkRemove(w) ==
    /\ d_pc[w] = "nonok_remove"
    /\ files' = RemoveFile(files, FilePath(d_job[w]))
    /\ IF d_raise[w]
       THEN /\ errors_log' = LogAppend(errors_log, <<>>, d_job[w].page)
            /\ DIdle(w, "get")
       ELSE /\ d_pc' = [d_pc EXCEPT ![w] = "inc_read"]
            /\ UNCHANGED <<errors_log, d_job, d_tmp, d_raise>>
    /\ UNCHANGED <<coord, ratings, total_downloads, upd, post_queue,
                   post_unfinished, download_queue, dl_unfinished, pvars,
                   disk, faults_left, hist>>

\* self.total_downloads += 1, first half: the attribute is loaded
DIncrementLoad(w) ==
    /\ d_pc[w] = "inc_read"
    /\ d_tmp' = [d_tmp EXCEPT ![w] = total_downloads]
    /\ d_pc' = [d_pc EXCEPT ![w] = "inc_write"]
    /\ UNCHANGED <<coord, ratings, total_downloads, upd, post_queue,
                   post_unfinished, download_queue, dl_unfinished, pvars, d_job,
                   d_raise, files, errors_log, disk, faults_left, hist>>

\* self.total_downloads += 1, second half: the sum is stored; then
\* download_queue.task_done()
DIncrementStore(w) ==
    /\ d_pc[w] = "inc_write"
    /\ total_downloads' = d_tmp[w] + 1
    /\ stats' = Bump(stats, d_job[w].url, "inc")
    /\ IF dl_unfinished > 0
       THEN /\ dl_unfinished' = dl_unfinished - 1
            /\ DIdle(w, "get")
       ELSE /\ d_pc' = [d_pc EXCEPT ![w] = "exc_done"]
            /\ UNCHANGED <<dl_unfinished, d_job, d_tmp, d_raise>>
    /\ UNCHANGED <<coord, ratings, upd, post_queue, post_unfinished,
                   download_queue, pvars, files, errors_log,
                   disk, faults_left, pushed, crawled, int_post, int_dl>>

\* except Exception: write_traceback(url=url, page=page), then
\* download_queue.task_done(); a ValueError raised here ends the thread
DExceptTaskDone(w) ==
    /\ d_pc[w] = "exc_done"
    /\ errors_log' = LogAppend(errors_log, d_job[w].url, d_job[w].page)
    /\ IF dl_unfinished > 0
       THEN /\ dl_unfinished' = dl_unfinished - 1
            /\ d_pc' = [d_pc EXCEPT ![w] = "exc_put"]
            /\ UNCHANGED <<d_job, d_tmp, d_raise>>
       ELSE /\ DIdle(w, "crashed")
            /\ UNCHANGED dl_unfinished
    /\ UNCHANGED <<coord, ratings, total_downloads, upd, post_queue,
                   post_unfinished, download_queue, pvars,
                   files, disk, faults_left, hist>>

\* except Exception: download_queue.put((url, page, rating))
DExceptPut(w) ==
    /\ d_pc[w] = "exc_put"
    /\ download_queue' = Append(download_queue, d_job[w])
    /\ dl_unfinished' = dl_unfinished + 1
    /\ d_pc' = [d_pc EXCEPT ![w] = "exc_remove"]
    /\ UNCHANGED <<coord, ratings, total_downloads, upd, post_queue,
                   post_unfinished, pvars, d_job, d_tmp, d_raise, files,
                   errors_log, disk, faults_left, hist>>

\* except Exception: if os.path.isfile(file_path): os.remove(file_path)
DExceptRemove(w) ==
    /\ d_pc[w] = "exc_remove"
    /\ files' = RemoveFile(files, FilePath(d_job[w]))
    /\ DIdle(w, "get")
    /\ UNCHANGED <<coord, ratings, total_downloads, upd, post_queue,
                   post_unfinished, download_queue, dl_unfinished, pvars,
                   errors_log, disk, faults_left, hist>>

retrieve_post_image_worker(w) ==
    \/ DGet(w) \/ DNonOkTaskDone(w) \/ DNonOkPut(w) \/ DNonOkRemove(w)
    \/ DIncrementLoad(w) \/ DIncrementStore(w) \/ DExceptTaskDone(w)
    \/ DExceptPut(w) \/ DExceptRemove(w)

\* ------------------------------------------------------------- main thread
AllThreadsEnded ==
    /\ \A w \in PWorkers : p_pc[w] \in {"exited", "crashed"}
    /\ \A w \in DWorkers : d_pc[w] \in {"exited", "crashed"}

\* the contents save_metadata writes to metadata.progress
SavedMetadata ==
    [present |-> TRUE,
     safe |-> FlagStr(ratings.safe),
     questionable |-> FlagStr(ratings.questionable),
     explicit |-> FlagStr(ratings.explicit),
     total_downloads |-> IF job_done THEN <<"0">> ELSE DecStr(total_downloads),
     time_elapsed |-> IF job_done THEN <<"0">> ELSE <<"1", ".", "5">>,
     previous_newest_id |-> current_newest_id]

\* for page_num in range(1, self.pages + 1): self.post_queue.put(page_num)
CrawlPutPage ==
    /\ c_pc = "seed"
    /\ post_queue' = Append(post_queue, PageJob(c_i))
    /\ post_unfinished' = post_unfinished + 1
    /\ c_i' = c_i + 1
    /\ c_pc' = IF c_i < Pages THEN c_pc ELSE "join_post"
    /\ UNCHANGED <<c_n, result, job_done, ratings, total_downloads, upd,
                   download_queue, dl_unfinished, pvars, dvars, files, errors_log,
                   disk, faults_left, hist>>

\* self.post_queue.join() returns when unfinished_tasks is 0
CrawlJoinPostQueue ==
    /\ c_pc = "join_post"
    /\ post_unfinished = 0
    /\ c_pc' = "join_download"
    /\ UNCHANGED <<c_i, c_n, result, job_done, ratings, total_downloads,
                   upd, post_queue, post_unfinished, download_queue,
                   dl_unfinished, pvars, dvars, files, errors_log, disk, faults_left, hist>>

\* self.download_queue.join()
CrawlJoinDownloadQueue ==
    /\ c_pc = "join_download"
    /\ dl_unfinished = 0
    /\ c_pc' = "exit_post"
    /\ UNCHANGED <<c_i, c_n, result, job_done, ratings, total_downloads, upd,
                   post_queue, post_unfinished, download_queue, dl_unfinished,
                   pvars, dvars, files, errors_log, disk, faults_left, hist>>

\* one self.post_queue.put(None) of the loop at program point `at`
PutPostExitSignal(at, next) ==
    /\ c_pc = at
    /\ post_queue' = Append(post_queue, NoneItem)
    /\ post_unfinished' = post_unfinished + 1
    /\ IF c_n + 1 < PostCrawlers
       THEN c_n' = c_n + 1 /\ UNCHANGED c_pc
       ELSE c_n' = 0 /\ c_pc' = next
    /\ UNCHANGED <<c_i, result, job_done, ratings, total_downloads, upd,
                   download_queue, dl_unfinished, pvars, dvars, files, errors_log,
                   disk, faults_left, hist>>

\* one self.download_queue.put((None, None, None)) of the loop at `at`
PutDownloadExitSignal(at, next) ==
    /\ c_pc = at
    /\ download_queue' = Append(download_queue, NoneItem)
    /\ dl_unfinished' = dl_unfinished + 1
    /\ IF c_n + 1 < Downloaders
       THEN c_n' = c_n + 1 /\ UNCHANGED c_pc
       ELSE c_n' = 0 /\ c_pc' = next
    /\ UNCHANGED <<c_i, result, job_done, ratings, total_downloads, upd,
                   post_queue, post_unfinished, pvars, dvars, files, errors_log,
                   disk, faults_left, hist>>

\* thread.join() for every thread, then self.job_done = True
CrawlJoinThreads ==
    /\ c_pc = "join_threads"
    /\ AllThreadsEnded
    /\ job_done' = TRUE
    /\ c_pc' = "save_metadata"
    /\ UNCHANGED <<c_i, c_n, result, ratings, total_downloads, upd,
                   post_queue, post_unfinished, download_queue, dl_unfinished,
                   pvars, dvars, files, errors_log, disk, faults_left, hist>>

\* self.save_metadata(); return True
CrawlReturnTrue ==
    /\ c_pc = "save_metadata"
    /\ metadata' = SavedMetadata
    /\ result' = "True"
    /\ c_pc' = "returned"
    /\ UNCHANGED <<c_i, c_n, job_done, ratings, total_downloads, upd,
                   post_queue, post_unfinished, download_queue, dl_unfinished,
                   pvars, dvars, files, errors_log, dl_file, post_file, faults_left, hist>>

\* the program points of the try block of crawl()
TryBlock == {"seed", "join_post", "join_download", "exit_post", "exit_download",
             "join_threads", "save_metadata"}

\* KeyboardInterrupt is raised in the main thread anywhere in the try block.
\* except KeyboardInterrupt: if not self.download_queue.empty(): save_queues(),
\* which begins with open(download_queue.progress, 'w')
KeyboardInterrupt ==
    /\ c_pc \in TryBlock
    /\ int_post' = post_queue
    /\ IF download_queue # <<>>
       THEN /\ c_pc' = "save_download"
            /\ dl_file' = [present |-> TRUE, text |-> <<>>]
       ELSE /\ c_pc' = "clear_post"
            /\ UNCHANGED dl_file
    /\ UNCHANGED <<c_i, c_n, result, job_done, ratings, total_downloads,
                   upd, post_queue, post_unfinished, download_queue,
                   dl_unfinished, pvars, dvars, files, errors_log, post_file,
                   metadata, faults_left, pushed, crawled, stats, int_dl>>

\* save_queues: while not self.download_queue.empty(); after the loop the file
\* is closed and post_queue.progress is opened for writing
SaveTestDownloadQueue ==
    /\ c_pc = "save_download"
    /\ IF download_queue # <<>>
       THEN c_pc' = "save_download_get" /\ UNCHANGED post_file
       ELSE c_pc' = "save_post" /\ post_file' = [present |-> TRUE, text |-> <<>>]
    /\ UNCHANGED <<c_i, c_n, result, job_done, ratings, total_downloads,
                   upd, post_queue, post_unfinished, download_queue,
                   dl_unfinished, pvars, dvars, files, errors_log, dl_file,
                   metadata, faults_left, hist>>

\* save_queues: link, page, rating = self.download_queue.get() (it waits for
\* an item), the write of the record and self.download_queue.task_done(),
\* whose ValueError is caught nowhere and leaves crawl()
SaveGetDownload ==
    /\ c_pc = "save_download_get"
    /\ download_queue # <<>>
    /\ download_queue' = Tail(download_queue)
    /\ dl_file' = [dl_file EXCEPT !.text = @ \o DownloadLine(Head(download_queue))]
    /\ IF dl_unfinished > 0
       THEN dl_unfinished' = dl_unfinished - 1 /\ c_pc' = "save_download"
       ELSE c_pc' = "raised" /\ UNCHANGED dl_unfinished
    /\ UNCHANGED <<c_i, c_n, result, job_done, ratings, total_downloads,
                   upd, post_queue, post_unfinished,
                   pvars, dvars, files, errors_log, post_file, metadata, faults_left, hist>>

\* save_queues: while not self.post_queue.empty(); save_queues returns to
\* `next` after the loop
SaveTestPostQueue(next) ==
    /\ c_pc = "save_post"
    /\ c_pc' = IF post_queue # <<>> THEN "save_post_get" ELSE next
    /\ UNCHANGED <<c_i, c_n, result, job_done, ratings, total_downloads,
                   upd, post_queue, post_unfinished, download_queue,
                   dl_unfinished, pvars, dvars, files, errors_log, disk, faults_left, hist>>

\* save_queues: the write of self.post_queue.get() and
\* self.post_queue.task_done()
SaveGetPost ==
    /\ c_pc = "save_post_get"
    /\ post_queue # <<>>
    /\ post_queue' = Tail(post_queue)
    /\ post_file' = [post_file EXCEPT !.text = @ \o PostLine(Head(post_queue))]
    /\ IF post_unfinished > 0
       THEN post_unfinished' = post_unfinished - 1 /\ c_pc' = "save_post"
       ELSE c_pc' = "raised" /\ UNCHANGED post_unfinished
    /\ UNCHANGED <<c_i, c_n, result, job_done, ratings, total_downloads,
                   upd, download_queue,
                   dl_unfinished, pvars, dvars, files, errors_log, dl_file,
                   metadata, faults_left, hist>>

save_queues(next) ==
    \/ SaveTestDownloadQueue \/ SaveGetDownload
    \/ SaveTestPostQueue(next) \/ SaveGetPost

\* self.post_queue.queue.clear()
InterruptClearPostQueue ==
    /\ c_pc = "clear_post"
    /\ post_queue' = <<>>
    /\ c_pc' = "int_exit_post"
    /\ c_n' = 0
    /\ UNCHANGED <<c_i, result, job_done, ratings, total_downloads, upd,
                   post_unfinished, download_queue, dl_unfinished, pvars, dvars,
                   files, errors_log, disk, faults_left, hist>>

\* self.download_queue.queue.clear()
InterruptClearDownloadQueue ==
    /\ c_pc = "clear_download"
    /\ download_queue' = <<>>
    /\ c_pc' = "int_exit_download"
    /\ c_n' = 0
    /\ UNCHANGED <<c_i, result, job_done, ratings, total_downloads, upd,
                   post_queue, post_unfinished, dl_unfinished, pvars, dvars,
                   files, errors_log, disk, faults_left, hist>>

\* thread.join() for every thread, self.save_metadata(), return False
InterruptReturnFalse ==
    /\ c_pc = "int_join_threads"
    /\ AllThreadsEnded
    /\ metadata' = SavedMetadata
    /\ result' = "False"
    /\ c_pc' = "returned"
    /\ UNCHANGED <<c_i, c_n, job_done, ratings, total_downloads, upd,
                   post_queue, post_unfinished, download_queue, dl_unfinished,
                   pvars, dvars, files, errors_log, dl_file, post_file, faults_left, hist>>

\* crawl() up to "return True"
crawl_try ==
    \/ CrawlPutPage \/ CrawlJoinPostQueue \/ CrawlJoinDownloadQueue
    \/ PutPostExitSignal("exit_post", "exit_download")
    \/ PutDownloadExitSignal("exit_download", "join_threads")
    \/ CrawlJoinThreads \/ CrawlReturnTrue

\* the except clause of crawl()
crawl_except ==
    \/ KeyboardInterrupt
    \/ save_queues("clear_post")
    \/ InterruptClearPostQueue
    \/ PutPostExitSignal("int_exit_post", "clear_download")
    \/ InterruptClearDownloadQueue
    \/ PutDownloadExitSignal("int_exit_download", "int_join_threads")
    \/ InterruptReturnFalse


Threads ==
    \/ \E w \in PWorkers : crawl_post_page_worker(w)
    \/ \E w \in DWorkers : retrieve_post_image_worker(w)

\* a run of crawl() that Ctrl-C may interrupt
Next == crawl_try \/ crawl_except \/ Threads

Spec == Init /\ [][Next]_vars

\* a run of crawl() that nobody interrupts, with one more failure injected
InitQuiet == Start("seed", "get", MaxFailQuiet, <<>>, <<>>)

NextQuiet == crawl_try \/ Threads

SpecQuiet == InitQuiet /\ [][NextQuiet]_vars

\* ------------------------------------------- save_queues, then read_queues
\* the urls, pages and ratings of the jobs drawn for the round trip
RoundTripUrls == {<<"https:", "/", "a">>, <<"https:", "/", "a", "|", "1">>}

RoundTripJobs ==
    {Job(u, pg, r) : u \in RoundTripUrls, pg \in {2, 10},
                     r \in {<<"safe">>, <<"explicit">>}}

RoundTripPages == {PageJob(1), PageJob(12)}

SeqsUpTo(S, n) == UNION {[1..k -> S] : k \in 0..n}

\* save_queues is called with no thread running
SaveQueuesCall ==
    /\ c_pc = "call_save"
    /\ dl_file' = [present |-> TRUE, text |-> <<>>]
    /\ c_pc' = "save_download"
    /\ UNCHANGED <<c_i, c_n, result, job_done, ratings, total_downloads,
                   upd, post_queue, post_unfinished, download_queue,
                   dl_unfinished, pvars, dvars, files, errors_log, post_file,
                   metadata, faults_left, hist>>

\* save_metadata is called
SaveMetadataCall ==
    /\ c_pc = "call_save_metadata"
    /\ metadata' = SavedMetadata
    /\ c_pc' = "call_read"
    /\ UNCHANGED <<c_i, c_n, result, job_done, ratings, total_downloads,
                   upd, post_queue, post_unfinished, download_queue,
                   dl_unfinished, pvars, dvars, files, errors_log, dl_file,
                   post_file, faults_left, hist>>

\* what read_metadata raises
MetadataError ==
    IF ~metadata.present THEN "KeyError"
    ELSE IF \E f \in {"safe", "questionable", "explicit", "total_downloads"} :
                ~IntOk(metadata[f])
         THEN "ValueError"
    ELSE "ok"

\* a new konadl object with load_progress True: crawl() creates the queues and
\* calls read_queues, which fills them from the two progress files and calls
\* read_metadata. KeyError and ValueError print the faulty-progress message
\* and exit(1); any other exception leaves crawl(); in both cases the records
\* before the faulty one have been put on the queues
ReadQueues ==
    /\ c_pc = "call_read"
    /\ LET dl == ReadDownloadLines(FileLines(dl_file.text))
           po == ReadPostLines(FileLines(post_file.text))
           st == IF dl.status # "ok" THEN dl.status
                 ELSE IF po.status # "ok" THEN po.status
                 ELSE MetadataError
       IN  IF st = "ok"
           THEN /\ download_queue' = dl.items
                /\ dl_unfinished' = Len(dl.items)
                /\ post_queue' = po.items
                /\ post_unfinished' = Len(po.items)
                /\ ratings' = [safe |-> StrFlag(metadata.safe),
                               questionable |-> StrFlag(metadata.questionable),
                               explicit |-> StrFlag(metadata.explicit)]
                /\ total_downloads' = 0 + ParseInt(metadata.total_downloads)
                /\ previous_newest_id' = metadata.previous_newest_id
                /\ c_pc' = "loaded"
           ELSE /\ c_pc' = IF st \in {"KeyError", "ValueError"}
                           THEN "faulty_exit" ELSE "raised"
                /\ download_queue' = download_queue \o dl.items
                /\ dl_unfinished' = dl_unfinished + Len(dl.items)
                /\ post_queue' = IF dl.status = "ok" THEN post_queue \o po.items
                                 ELSE post_queue
                /\ post_unfinished' = IF dl.status = "ok"
                                      THEN post_unfinished + Len(po.items)
                                      ELSE post_unfinished
                /\ UNCHANGED <<ratings, total_downloads, previous_newest_id>>
    /\ UNCHANGED <<c_i, c_n, result, job_done, current_newest_id, update_pushed,
                   pvars, dvars, files, errors_log, disk, faults_left, hist>>

InitRoundTrip ==
    \E pq \in SeqsUpTo(RoundTripPages, MaxQueue),
       dq \in SeqsUpTo(RoundTripJobs, MaxQueue) :
        Start("call_save", "not_started", 0, pq, dq)

NextRoundTrip ==
    \/ SaveQueuesCall \/ save_queues("call_save_metadata")
    \/ SaveMetadataCall \/ ReadQueues

SpecRoundTrip == InitRoundTrip /\ [][NextRoundTrip]_vars

\* ------------------------------------------------------------------ update()
\* the ids of the posts the site lists, and an id it no longer lists
ListedIds ==
    UNION {{Listing(p)[k].id : k \in 1..Len(Listing(p))} : p \in 1..TotalPages}

PreviousIds == ListedIds \cup {<<"p", "0">>}

RatingFlags == [safe : BOOLEAN, questionable : BOOLEAN, explicit : BOOLEAN]

\* metadata.progress as the save_metadata of an earlier, completed run left it
EarlierMetadata(flags, id) ==
    [present |-> TRUE,
     safe |-> FlagStr(flags.safe),
     questionable |-> FlagStr(flags.questionable),
     explicit |-> FlagStr(flags.explicit),
     total_downloads |-> <<"0">>,
     time_elapsed |-> <<"0">>,
     previous_newest_id |-> id]

\* update() up to the start of the downloader threads: read_metadata (a
\* missing file raises KeyError, which leaves update()), get_newest_image_id,
\* the new queues, and "return False" when nothing new has been posted
UpdateStart ==
    /\ c_pc = "u_start"
    /\ IF MetadataError # "ok"
       THEN /\ c_pc' = "raised"
            /\ UNCHANGED <<result, ratings, total_downloads, current_newest_id,
                           previous_newest_id, d_pc>>
       ELSE LET flags == [safe |-> StrFlag(metadata.safe),
                          questionable |-> StrFlag(metadata.questionable),
                          explicit |-> StrFlag(metadata.explicit)]
            IN  /\ ratings' = flags
                /\ total_downloads' = total_downloads + ParseInt(metadata.total_downloads)
                /\ previous_newest_id' = metadata.previous_newest_id
                /\ current_newest_id' = NewestImageId(flags)
                /\ IF NewestImageId(flags) = metadata.previous_newest_id
                   THEN /\ result' = "False"
                        /\ c_pc' = "u_returned"
                        /\ UNCHANGED d_pc
                   ELSE /\ c_pc' = "u_fetch"
                        /\ d_pc' = [w \in DWorkers |-> "get"]
                        /\ UNCHANGED result
    /\ UNCHANGED <<c_i, c_n, job_done, post_queue, post_unfinished, download_queue,
                   dl_unfinished, pvars, d_job, d_tmp, d_raise, files, errors_log,
                   disk, faults_left, hist, update_pushed>>

\* crawl_new_images: "while not update_post_queue.empty()", page = get() and
\* requests.get of the listing page. A network error, or the HTTPError that
\* raise_for_status() raises for 4xx and 5xx, is caught nowhere in update();
\* with another status that is not 200 the body is parsed
UpdateFetchPage ==
    /\ c_pc = "u_fetch"
    /\ IF c_i > TotalPages
       THEN /\ c_pc' = "u_join"
            /\ UNCHANGED <<c_n, faults_left>>
       ELSE \E o \in PageOutcomes :
            /\ faults_left' = IF o = "ok" THEN faults_left ELSE faults_left - 1
            /\ c_pc' = IF o \in {"neterr", "http_error"} THEN "raised" ELSE "u_parse"
            /\ c_n' = 1
    /\ UNCHANGED <<c_i, result, job_done, ratings, total_downloads, upd, post_queue,
                   post_unfinished, download_queue, dl_unfinished, pvars, dvars,
                   files, errors_log, disk, hist>>

\* the boundary test with the attributes confused: the id of the newest post
\* of this run instead of the newest of the previous run
IsUpdateBoundaryCurrent(post) == post.id = current_newest_id

\* if post['id'] == self.previous_newest_id
IsUpdateBoundary(post) == post.id = previous_newest_id

\* crawl_new_images: one turn of "for post in posts": return at the post
\* whose id is previous_newest_id, else choose the rating and put an accepted
\* post on the download queue; after the last post the next page is taken
UpdateParsePost ==
    /\ c_pc = "u_parse"
    /\ IF c_n > Len(Listing(c_i))
       THEN /\ c_i' = c_i + 1
            /\ c_pc' = "u_fetch"
            /\ c_n' = 0
            /\ UNCHANGED <<download_queue, dl_unfinished, pushed, update_pushed>>
       ELSE LET post == Listing(c_i)[c_n]
                job  == PostJob(post, c_i, ratings)
            IN  IF IsUpdateBoundary(post)
                THEN /\ c_pc' = "u_join"
                     /\ c_n' = 0
                     /\ UNCHANGED <<c_i, download_queue, dl_unfinished, pushed,
                                    update_pushed>>
                ELSE /\ IF job.rating # <<>>
                        THEN /\ download_queue' = Append(download_queue, job)
                             /\ dl_unfinished' = dl_unfinished + 1
                             /\ pushed' = pushed \cup {job}
                             /\ update_pushed' = Append(update_pushed, job)
                        ELSE UNCHANGED <<download_queue, dl_unfinished, pushed,
                                         update_pushed>>
                     /\ c_n' = c_n + 1
                     /\ UNCHANGED <<c_i, c_pc>>
    /\ UNCHANGED <<result, job_done, ratings, total_downloads, current_newest_id,
                   previous_newest_id, post_queue, post_unfinished, pvars, dvars,
                   files, errors_log, disk, faults_left, crawled, stats, int_post,
                   int_dl>>

\* self.download_queue.join()
UpdateJoinDownloadQueue ==
    /\ c_pc = "u_join"
    /\ dl_unfinished = 0
    /\ c_pc' = "u_exit_download"
    /\ UNCHANGED <<c_i, c_n, result, job_done, ratings, total_downloads, upd,
                   post_queue, post_unfinished, download_queue, dl_unfinished,
                   pvars, dvars, files, errors_log, disk, faults_left, hist>>

DownloadersEnded == \A w \in DWorkers : d_pc[w] \in {"exited", "crashed"}

\* thread.join() for every downloader, self.job_done = True,
\* self.save_metadata(), return True
UpdateReturnTrue ==
    /\ c_pc = "u_join_threads"
    /\ DownloadersEnded
    /\ job_done' = TRUE
    /\ metadata' = [SavedMetadata EXCEPT !.total_downloads = <<"0">>,
                                         !.time_elapsed = <<"0">>]
    /\ result' = "True"
    /\ c_pc' = "u_returned"
    /\ UNCHANGED <<c_i, c_n, ratings, total_downloads, upd, post_queue,
                   post_unfinished, download_queue, dl_unfinished, pvars, dvars,
                   files, errors_log, dl_file, post_file, faults_left, hist>>

\* the try block of update()
update_try ==
    \/ UpdateStart \/ UpdateFetchPage \/ UpdateParsePost \/ UpdateJoinDownloadQueue
    \/ PutDownloadExitSignal("u_exit_download", "u_join_threads")
    \/ UpdateReturnTrue

\* the program points of the try block of update()
UpdateTryBlock == {"u_fetch", "u_parse", "u_join", "u_exit_download", "u_join_threads"}

\* except (KeyboardInterrupt, SystemExit) of update(): save_queues() when the
\* download queue is not empty
UpdateKeyboardInterrupt ==
    /\ c_pc \in UpdateTryBlock
    /\ IF download_queue # <<>>
       THEN /\ c_pc' = "save_download"
            /\ dl_file' = [present |-> TRUE, text |-> <<>>]
       ELSE /\ c_pc' = "u_clear_download"
            /\ UNCHANGED dl_file
    /\ UNCHANGED <<c_i, c_n, result, job_done, ratings, total_downloads, upd,
                   post_queue, post_unfinished, download_queue, dl_unfinished,
                   pvars, dvars, files, errors_log, post_file, metadata,
                   faults_left, hist>>

\* self.download_queue.queue.clear()
UpdateClearDownloadQueue ==
    /\ c_pc = "u_clear_download"
    /\ download_queue' = <<>>
    /\ c_pc' = "u_int_exit_download"
    /\ c_n' = 0
    /\ UNCHANGED <<c_i, result, job_done, ratings, total_downloads, upd,
                   post_queue, post_unfinished, dl_unfinished, pvars, dvars,
                   files, errors_log, disk, faults_left, hist>>

\* thread.join() for every downloader, self.save_metadata(), return False
UpdateInterruptReturnFalse ==
    /\ c_pc = "u_int_join_threads"
    /\ DownloadersEnded
    /\ metadata' = SavedMetadata
    /\ result' = "False"
    /\ c_pc' = "u_returned"
    /\ UNCHANGED <<c_i, c_n, job_done, ratings, total_downloads, upd, post_queue,
                   post_unfinished, download_queue, dl_unfinished, pvars, dvars,
                   files, errors_log, dl_file, post_file, faults_left, hist>>

\* the except clause of update(); its post_queue is always empty
update_except ==
    \/ UpdateKeyboardInterrupt
    \/ SaveTestDownloadQueue \/ SaveGetDownload \/ SaveTestPostQueue("u_clear_download")
    \/ UpdateClearDownloadQueue
    \/ PutDownloadExitSignal("u_int_exit_download", "u_int_join_threads")
    \/ UpdateInterruptReturnFalse

\* update() is called on a new object whose storage holds the metadata of an
\* earlier run
InitUpdate ==
    \E flags \in RatingFlags, id \in PreviousIds :
        StartWith("u_start", "not_started", MaxFailUpdate, <<>>, <<>>,
                  NoFile, NoFile, EarlierMetadata(flags, id))

\* a run of update() that nobody interrupts
NextUpdate ==
    \/ update_try
    \/ \E w \in DWorkers : retrieve_post_image_worker(w)

SpecUpdate == InitUpdate /\ [][NextUpdate]_vars


\* ------------------------------------------------- crawl() with load_progress
\* crawl() after read_queues: get_newest_image_id and the start of the page
\* crawler and downloader threads; no page is put when load_progress is set
CrawlStartThreads ==
    /\ c_pc = "loaded"
    /\ current_newest_id' = NewestImageId(ratings)
    /\ p_pc' = [w \in PWorkers |-> "get"]
    /\ d_pc' = [w \in DWorkers |-> "get"]
    /\ c_pc' = "join_post"
    /\ UNCHANGED <<c_i, c_n, result, job_done, ratings, total_downloads,
                   previous_newest_id, update_pushed, post_queue, post_unfinished,
                   download_queue, dl_unfinished, p_page, p_idx, p_raise, d_job,
                   d_tmp, d_raise, files, errors_log, disk, faults_left, hist>>

\* crawl() after read_queues, up to "return True"
crawl_loaded ==
    \/ CrawlStartThreads
    \/ CrawlJoinPostQueue \/ CrawlJoinDownloadQueue
    \/ PutPostExitSignal("exit_post", "exit_download")
    \/ PutDownloadExitSignal("exit_download", "join_threads")
    \/ CrawlJoinThreads \/ CrawlReturnTrue

\* crawl() from read_queues to "return True"
crawl_resumed == ReadQueues \/ crawl_loaded

\* crawl() is called with load_progress set on a storage folder whose
\* post_queue.progress holds one page and whose metadata holds any rating flags
InitResume ==
    \E flags \in RatingFlags, p \in 1..TotalPages :
        StartWith("call_read", "not_started", MaxFailUpdate, <<>>, <<>>,
                  [present |-> TRUE, text |-> <<>>],
                  [present |-> TRUE, text |-> PostLine(PageJob(p))],
                  EarlierMetadata(flags, <<"p", "0">>))

\* runs of a resumed crawl() and runs of update(), under every combination of
\* the rating flags
InitRatings == InitResume \/ InitUpdate

NextRatings == crawl_resumed \/ update_try \/ Threads

SpecRatings == InitRatings /\ [][NextRatings]_vars

\* ------------------------------------------ read_queues on any progress files
\* records a progress file can hold: well-formed ones, download records with
\* one, two and four fields, and records whose page is not a number
FoundDownloadLines ==
    { <<"https:", "/", "a", "|", "2", "|", "safe", "\n">>,
      <<"https:", "/", "a", "\n">>,
      <<"https:", "/", "a", "|", "2", "\n">>,
      <<"https:", "/", "a", "|", "1", "|", "2", "|", "safe", "\n">>,
      <<"https:", "/", "a", "|", "x", "|", "safe", "\n">> }

FoundPostLines == { <<"1", "\n">>, <<"1", "2", "\n">>, <<"x", "\n">> }

RECURSIVE Concat(_)
Concat(ss) == IF ss = <<>> THEN <<>> ELSE Head(ss) \o Concat(Tail(ss))

\* crawl() is called with load_progress set on a storage folder whose progress
\* files hold any of these records
InitFound ==
    \E dls \in SeqsUpTo(FoundDownloadLines, MaxQueue),
       pls \in SeqsUpTo(FoundPostLines, MaxQueue),
       md \in {NoMetadata,
               EarlierMetadata([safe |-> TRUE, questionable |-> FALSE,
                                explicit |-> FALSE], <<"p", "9">>)} :
        StartWith("call_read", "not_started", 0, <<>>, <<>>,
                  [present |-> TRUE, text |-> Concat(dls)],
                  [present |-> TRUE, text |-> Concat(pls)], md)

\* crawl() with load_progress set, up to the start of the threads
NextFound == ReadQueues \/ CrawlStartThreads

SpecFound == InitFound /\ [][NextFound]_vars

\* ------------------------------------------------ crawl() with fair threads
\* the program points of the except clause of crawl()
HandlerBlock == {"save_download", "save_download_get", "save_post",
                 "save_post_get", "clear_post", "int_exit_post",
                 "clear_download", "int_exit_download", "int_join_threads"}

\* a step of the main thread other than the arrival of KeyboardInterrupt
MainStep == crawl_try \/ (c_pc \in HandlerBlock /\ crawl_except)

\* the steps a page crawler and a downloader take when the site answers every
\* request with 200 and a full body
PageWorkerOk(w) == PGet(w) \/ PParsePost(w) \/ PTaskDone(w)

DownloaderOk(w) == DGet(w) \/ DIncrementLoad(w) \/ DIncrementStore(w)

\* a run of crawl() that Ctrl-C may interrupt, on a site that never fails:
\* every thread that can take a step eventually takes one
InitFair == Start("seed", "get", 0, <<>>, <<>>)

NextFair ==
    \/ crawl_try \/ crawl_except
    \/ \E w \in PWorkers : PageWorkerOk(w)
    \/ \E w \in DWorkers : DownloaderOk(w)

SpecFair ==
    /\ InitFair /\ [][NextFair]_vars
    /\ WF_vars(MainStep)
    /\ \A w \in PWorkers : WF_vars(PageWorkerOk(w))
    /\ \A w \in DWorkers : WF_vars(DownloaderOk(w))

\* ------------------------------------- crawl() resumed, with fair threads
\* the download jobs an interrupted run left in download_queue.progress: the
\* first safe post of page 1 and of page 2
SafeOnly == [safe |-> TRUE, questionable |-> FALSE, explicit |-> FALSE]

RetryJobs == <<PostJob(Listing(1)[1], 1, SafeOnly), PostJob(Listing(2)[1], 2, SafeOnly)>>

\* crawl() is called with load_progress set on a storage folder whose
\* download_queue.progress holds the two jobs and whose post_queue.progress
\* is empty
InitRetry ==
    StartWith("call_read", "not_started", MaxFailQuiet, <<>>, <<>>,
              [present |-> TRUE,
               text |-> DownloadLine(RetryJobs[1]) \o DownloadLine(RetryJobs[2])],
              [present |-> TRUE, text |-> <<>>],
              EarlierMetadata(SafeOnly, <<"p", "0">>))

\* the page crawlers find nothing but their exit signal
NextRetry ==
    \/ crawl_resumed
    \/ \E w \in PWorkers : PGet(w)
    \/ \E w \in DWorkers : retrieve_post_image_worker(w)

\* downloader w can take a step: it is running, and when it is at
\* download_queue.get() the queue holds an item (and, for a real job, image
\* requests are still followed)
DownloaderCanStep(w) ==
    /\ d_pc[w] \notin {"not_started", "exited", "crashed"}
    /\ d_pc[w] = "get" =>
           /\ download_queue # <<>>
           /\ Head(download_queue).kind = "None" \/ Attempts(stats) < MaxAttempts

\* once the progress files are loaded, every thread that can take a step
\* eventually takes one (weak fairness; for the downloaders it is written
\* with DownloaderCanStep in the place of ENABLED)
SpecRetry ==
    /\ InitRetry /\ [][NextRetry]_vars
    /\ WF_vars(crawl_loaded)
    /\ \A w \in PWorkers : WF_vars(PGet(w))
    /\ \A w \in DWorkers :
           \/ []<>(~DownloaderCanStep(w))
           \/ []<><<retrieve_post_image_worker(w)>>_vars

\* ------------------------------------------------- update() with Ctrl-C
\* update() on a site that never fails, which Ctrl-C may interrupt anywhere in
\* the try block
InitUpdateInterrupt ==
    \E flags \in RatingFlags, id \in PreviousIds :
        StartWith("u_start", "not_started", 0, <<>>, <<>>, NoFile, NoFile,
                  EarlierMetadata(flags, id))

NextUpdateInterrupt ==
    \/ update_try \/ update_except
    \/ \E w \in DWorkers : DownloaderOk(w)

SpecUpdateInterrupt == InitUpdateInterrupt /\ [][NextUpdateInterrupt]_vars

\* ------------------------------------------------------------------ claims
RealJobs(q) == {q[i] : i \in {k \in 1..Len(q) : q[k].kind = "job"}}

\* the posts of a page that the rating flags accept, as download jobs
AcceptedJobs(page) ==
    {j \in {PostJob(Listing(page)[k], page, ratings) : k \in 1..Len(Listing(page))} :
        j.rating # <<>>}

\* the records of the two progress files
DownloadRecords == RangeOf(FileLines(dl_file.text))

PostRecords == RangeOf(FileLines(post_file.text))

\* the pages put on the page queue by crawl()
PagesPut == 1..(c_i - 1)

HasImage(job) == [path |-> FilePath(job), kind |-> "image"] \in files

\* the records of errors.log that carry URL=url
LogEntries(url) ==
    LET es == {e \in DOMAIN errors_log : e.url = url}
        RECURSIVE Sum(_)
        Sum(S) == IF S = {} THEN 0
                  ELSE LET e == CHOOSE x \in S : TRUE
                       IN  errors_log[e] + Sum(S \ {e})
    IN  Sum(es)

SuccessfulAttempts == SumOk(stats, DOMAIN stats)

BagOf(q) == [x \in RangeOf(q) |-> Cardinality({i \in 1..Len(q) : q[i] = x})]

\* C1: when crawl() has returned (True or False), every download job that was
\* ever put on the download queue has been downloaded successfully or is
\* recorded in download_queue.progress.
C1_NoJobDropped ==
    c_pc = "returned" =>
        \A j \in pushed :
            stats[j.url].ok > 0 \/ DownloadLine(j) \in DownloadRecords

\* C2: when crawl() returns True every requested page has been crawled, every
\* accepted post has its complete image file, and no real job is left in
\* either queue.
C2_TrueMeansAllDone ==
    result = "True" =>
        /\ \A pg \in 1..Pages : pg \in crawled
        /\ \A pg \in 1..Pages : \A j \in AcceptedJobs(pg) : HasImage(j)
        /\ RealJobs(post_queue) = {} /\ RealJobs(download_queue) = {}

\* C3: once post_queue.join() and download_queue.join() have both returned,
\* no worker holds a job, every real job put on either queue has been acked
\* (unfinished_tasks counts the exit signals only), and no real job is put
\* on a queue any more.
C3_DrainComplete ==
    (c_pc \in {"exit_post", "exit_download", "join_threads", "save_metadata"}
        \/ result = "True") =>
        /\ \A w \in PWorkers : p_pc[w] \in {"get", "exited", "crashed"}
        /\ \A w \in DWorkers : d_pc[w] \in {"get", "exited", "crashed"}
        /\ RealJobs(post_queue) = {} /\ RealJobs(download_queue) = {}
        /\ post_unfinished =
              (IF c_pc = "exit_post" THEN c_n ELSE PostCrawlers)
        /\ dl_unfinished =
              (IF c_pc = "exit_post" THEN 0
               ELSE IF c_pc = "exit_download" THEN c_n ELSE Downloaders)

\* C4: after an interrupt that found the download queue non-empty, crawl()
\* returns False with job_done false, both progress files exist, and reading
\* them back gives exactly the unfinished jobs: the pages put and not
\* crawled, and the download jobs put and not downloaded.
C4_CheckpointIsUnfinishedSet ==
    (result = "False" /\ dl_file.present) =>
        /\ post_file.present /\ ~job_done
        /\ ReadDownloadLines(FileLines(dl_file.text)).status = "ok"
        /\ ReadPostLines(FileLines(post_file.text)).status = "ok"
        /\ RangeOf(ReadDownloadLines(FileLines(dl_file.text)).items)
              = {j \in pushed : stats[j.url].ok = 0}
        /\ RangeOf(ReadPostLines(FileLines(post_file.text)).items)
              = {PageJob(pg) : pg \in PagesPut \ crawled}

\* C5: at the end of an interrupted run every page job that was pending in
\* the page queue when the interrupt arrived has been crawled or is recorded
\* in post_queue.progress.
C5_PendingPagesSaved ==
    result = "False" =>
        \A item \in RealJobs(int_post) :
            item.page \in crawled \/ PostLine(item) \in PostRecords

\* C6: when crawl() returns False both progress files have been written, and
\* when it returns True no queue progress file remains.
C6_ResultMatchesFiles ==
    /\ result = "False" => (dl_file.present /\ post_file.present)
    /\ result = "True" => (~dl_file.present /\ ~post_file.present)

\* C7: at the end of a run total_downloads equals the number of download
\* attempts that succeeded (nothing was loaded from metadata); stated for the
\* runs in which every response had status OK, so that only the interleaving
\* of the workers' increments decides it.
C7_CounterExact ==
    (c_pc = "returned" /\ \A u \in DOMAIN stats : stats[u].other = 0) =>
        total_downloads = SuccessfulAttempts

\* C8: at the end of a run, a url whose download failed N times, each time
\* with a size mismatch, and then succeeded has N records in errors.log, its
\* image file on disk, and was counted once in total_downloads.
C8_MismatchThenSuccess ==
    c_pc = "returned" =>
        \A j \in pushed :
            (stats[j.url].ok = 1 /\ stats[j.url].other = 0) =>
                /\ LogEntries(j.url) = stats[j.url].mismatch
                /\ HasImage(j)
                /\ stats[j.url].inc = 1

\* C9: a file that is not a complete image (a short body, or the body of a
\* response whose status is not OK) exists only while a downloader is still
\* handling a job with that path; none is left by a worker that is back at
\* the top of its loop or has ended.
C9_NoPartialFile ==
    \A f \in files :
        f.kind # "image" =>
            \E w \in DWorkers :
                /\ d_pc[w] \notin {"get", "exited", "crashed"}
                /\ FilePath(d_job[w]) = f.path

\* C10: save_queues followed by read_queues into new queues succeeds and
\* gives back the same page jobs and the same download jobs (as multisets).
C10_RoundTrip ==
    c_pc \in {"loaded", "faulty_exit", "raised"} =>
        /\ c_pc = "loaded"
        /\ BagOf(download_queue) = BagOf(int_dl)
        /\ BagOf(post_queue) = BagOf(int_post)
\* the posts met by walking the listing pages from page p on, each with its page
RECURSIVE PostsFrom(_)
PostsFrom(p) ==
    IF p > TotalPages THEN <<>>
    ELSE [k \in 1..Len(Listing(p)) |-> [post |-> Listing(p)[k], page |-> p]]
             \o PostsFrom(p + 1)

\* the position in that walk of the first post whose id is `id`; 0 when none
FirstIndexOf(id) ==
    LET walk == PostsFrom(1)
        hits == {k \in 1..Len(walk) : walk[k].post.id = id}
    IN  IF hits = {} THEN 0 ELSE CHOOSE k \in hits : \A h \in hits : k <= h

\* the jobs of the accepted posts among the first n posts of a walk, in order
RECURSIVE AcceptedOf(_, _, _)
AcceptedOf(walk, n, flags) ==
    IF n = 0 THEN <<>>
    ELSE LET j == PostJob(walk[n].post, walk[n].page, flags)
         IN  AcceptedOf(walk, n - 1, flags) \o (IF j.rating # <<>> THEN <<j>> ELSE <<>>)

IsPrefix(a, b) == Len(a) <= Len(b) /\ SubSeq(b, 1, Len(a)) = a

\* crawl_new_images has returned to update()
UpdateCrawlReturned ==
    \/ c_pc \in {"u_join", "u_exit_download", "u_join_threads"}
    \/ c_pc = "u_returned" /\ result = "True"

\* C11: when the post at position k of the walk from page 1 is the first whose
\* id is previous_newest_id, crawl_new_images never puts anything but the
\* accepted posts before k, in order, never fetches a page after the page of
\* k, and has put all of them when it returns.
C11_UpdateBoundary ==
    LET k == FirstIndexOf(previous_newest_id)
        expected == AcceptedOf(PostsFrom(1), k - 1, ratings)
    IN  k > 0 =>
            /\ IsPrefix(update_pushed, expected)
            /\ c_i <= PostsFrom(1)[k].page
            /\ UpdateCrawlReturned =>
                   update_pushed = expected /\ c_i = PostsFrom(1)[k].page

\* update() stopped at the second post of page 3 after putting three jobs,
\* one post before the boundary having been rejected
C11_Witness ==
    /\ UpdateCrawlReturned
    /\ previous_newest_id = <<"p", "6">>
    /\ Len(update_pushed) = 3
    /\ Cardinality({update_pushed[i].rating : i \in 1..3}) = 2
\* the rating a post has on the site, read from the alt text of its thumbnail
RatingOf(alt) ==
    CHOOSE r \in {<<"safe">>, <<"questionable">>, <<"explicit">>} :
        \/ r = <<"safe">> /\ "Rating: Safe" \in RangeOf(alt)
        \/ r = <<"questionable">> /\ "Rating: Questionable" \in RangeOf(alt)
        \/ r = <<"explicit">> /\ "Rating: Explicit" \in RangeOf(alt)

FlagOf(flags, r) ==
    CASE r = <<"safe">> -> flags.safe
      [] r = <<"questionable">> -> flags.questionable
      [] r = <<"explicit">> -> flags.explicit

\* the posts a finished pass has gone through: the pages a page crawler has
\* completed, and the walk of crawl_new_images when it ran to the last page
PostsGoneThrough ==
    UNION {{[post |-> Listing(pg)[k], page |-> pg] : k \in 1..Len(Listing(pg))} :
              pg \in crawled} \cup
    (IF UpdateCrawlReturned /\ FirstIndexOf(previous_newest_id) = 0
     THEN RangeOf(PostsFrom(1)) ELSE {})

\* C12: a download job is put for a post if and only if the flag of the
\* post's rating is enabled, and the job carries that rating: every job put
\* belongs to a post of its page whose rating is the job's and is enabled, and
\* every post gone through whose rating is enabled has its job put.
C12_RatingFilter ==
    /\ \A j \in pushed :
          \E k \in 1..Len(Listing(j.page)) :
              LET post == Listing(j.page)[k]
              IN  /\ PostUrl(post.href) = j.url
                  /\ RatingOf(post.alt) = j.rating
                  /\ FlagOf(ratings, j.rating)
    /\ \A e \in PostsGoneThrough :
          FlagOf(ratings, RatingOf(e.post.alt)) =>
              Job(PostUrl(e.post.href), e.page, RatingOf(e.post.alt)) \in pushed

\* a page crawler has completed page 3 with only questionable enabled: the
\* questionable post was put, the explicit one was not
C12_Witness ==
    /\ 3 \in crawled
    /\ ratings = [safe |-> FALSE, questionable |-> TRUE, explicit |-> FALSE]
    /\ {j.rating : j \in pushed} = {<<"questionable">>}
\* a download record that does not have three fields, or whose page is not
\* a number; a page record that is not a number
MalformedDownloadLine(l) ==
    LET f == Split(l, "|") IN Len(f) # 3 \/ ~IntOk(f[2])

MalformedPostLine(l) == ~IntOk(l)

MalformedCheckpoint ==
    \/ \E l \in RangeOf(FileLines(dl_file.text)) : MalformedDownloadLine(l)
    \/ \E l \in RangeOf(FileLines(post_file.text)) : MalformedPostLine(l)

ThreadsNotStarted ==
    /\ \A w \in PWorkers : p_pc[w] = "not_started"
    /\ \A w \in DWorkers : d_pc[w] = "not_started"

\* C13: when a progress file holds a malformed record, read_queues ends with
\* the faulty-progress message and exit(1), and no thread is started.
C13_FaultyCheckpointAborts ==
    (MalformedCheckpoint /\ c_pc # "call_read") =>
        c_pc = "faulty_exit" /\ ThreadsNotStarted
\* C14: metadata.progress holds total_downloads 0 and time_elapsed 0 exactly
\* when job_done is true, and after an interrupted run (crawl() returned False,
\* nothing was loaded before it) the persisted total_downloads is the number of
\* downloads that succeeded.
C14_PersistedCount ==
    metadata.present =>
        /\ job_done <=> (metadata.total_downloads = <<"0">>
                            /\ metadata.time_elapsed = <<"0">>)
        /\ result = "False" =>
               /\ IntOk(metadata.total_downloads)
               /\ ParseInt(metadata.total_downloads) = SuccessfulAttempts
\* C15: an attempt is a success or a failure, never both: total_downloads is
\* incremented for a url no more often than a download of it succeeded, and
\* task_done() is never called more often than get(): unfinished_tasks counts
\* at least the items still in the queue.
C15_OneOutcomePerAttempt ==
    /\ \A u \in DOMAIN stats : stats[u].inc <= stats[u].ok
    /\ dl_unfinished >= Len(download_queue)

\* a page worker still has a push to perform for the page it holds: the
\* retry of the page, or the download job of a post of the page not yet
\* gone through
HasPushToPerform(w) ==
    \/ p_pc[w] \in {"nonok_put", "exc_put"}
    \/ /\ p_pc[w] = "parse"
       /\ \E k \in p_idx[w]..Len(Listing(p_page[w])) :
              PostJob(Listing(p_page[w])[k], p_page[w], ratings).rating # <<>>

\* C16: a page job is acked only after the processing of the attempt is
\* complete, so unfinished_tasks of the page queue is never zero while a page
\* worker still has a download job or a retry to push for its current page.
C16_AckAfterProcessing ==
    \A w \in PWorkers : HasPushToPerform(w) => post_unfinished > 0

\* C17: in update mode too, an error of a page fetch or of an image download
\* stays inside the worker loop: once the site has answered a request with an
\* error, the exception has not left update() and the main thread is still
\* running it.
C17_ErrorStaysInWorker ==
    faults_left < MaxFailUpdate => c_pc # "raised"

\* the main thread is in the except clause of crawl()
InterruptReceived == c_pc \in HandlerBlock

\* no thread is at a program point that only a failed request leads to
OnlyOkSteps ==
    /\ \A w \in PWorkers : p_pc[w] \in {"get", "parse", "exited"}
    /\ \A w \in DWorkers : d_pc[w] \in {"get", "inc_read", "inc_write", "exited"}

\* C18: once KeyboardInterrupt has reached the main thread, crawl() eventually
\* returns False: the main thread does not wait forever in save_queues, at the
\* puts of the exit signals or at the joins of the threads.
C18_InterruptTerminates ==
    InterruptReceived ~> (c_pc = "returned" /\ result = "False")

\* the exit signals still in a queue
ExitSignalsIn(q) == {k \in 1..Len(q) : q[k].kind = "None"}

\* C19: when crawl() has returned, on the completion path and on the interrupt
\* path alike, every thread has taken one exit signal and ended, and no exit
\* signal is left in the post queue or in the download queue.
C19_SentinelShutdown ==
    c_pc = "returned" =>
        /\ \A w \in PWorkers : p_pc[w] = "exited"
        /\ \A w \in DWorkers : d_pc[w] = "exited"
        /\ ExitSignalsIn(post_queue) = {}
        /\ ExitSignalsIn(download_queue) = {}

\* a downloader is about to put back a job that failed while job b waits in
\* the download queue
RequeueWhilePending(b) ==
    /\ b \in RangeOf(download_queue)
    /\ \E w \in DWorkers : d_pc[w] \in {"nonok_put", "exc_put"} /\ d_job[w] # b

\* the page crawlers never hold a page
NoPageHeld == \A w \in PWorkers : p_pc[w] \in {"not_started", "get", "exited"}

\* C20: a job put back after a failed attempt goes behind the jobs that wait
\* in the queue, and every job that waits in the download queue at that moment
\* is eventually taken by a downloader (as long as image requests are still
\* followed by the model).
C20_NoStarvation ==
    \A k \in 1..Len(RetryJobs) :
        RequeueWhilePending(RetryJobs[k]) ~>
            (RetryJobs[k] \notin RangeOf(download_queue)
                 \/ Attempts(stats) >= MaxAttempts)

\* save_queues has just returned to the except clause of crawl(): the main
\* thread is at the clearing of the queues and download_queue.progress has
\* been opened for writing
SaveQueuesReturned == c_pc = "clear_post" /\ dl_file.present

\* C21: when save_queues returns, and up to the clearing of the queues, the
\* download queue and the page queue are both empty: no worker has put a job
\* on a queue since the snapshot began.
C21_SnapshotDrainsQueues ==
    SaveQueuesReturned => (download_queue = <<>> /\ post_queue = <<>>)

\* the accepted posts of pages 1..Pages, as download jobs
AllAcceptedJobs == UNION {AcceptedJobs(pg) : pg \in 1..Pages}

\* the image files on disk
ImageFiles == {f \in files : f.kind = "image"}

\* C22: in a run that returned True with every page crawled, no job left in a
\* queue and no image request failed, each accepted post of pages 1..Pages
\* gave rise to exactly one download job, also when a page was retried: the
\* downloaders made as many image requests as there are accepted posts, and
\* there are as many image files.
C22_OneJobPerPost ==
    (/\ result = "True"
     /\ \A pg \in 1..Pages : pg \in crawled
     /\ RealJobs(post_queue) = {} /\ RealJobs(download_queue) = {}
     /\ \A u \in DOMAIN stats : stats[u].mismatch = 0 /\ stats[u].other = 0) =>
        /\ Attempts(stats) = Cardinality(AllAcceptedJobs)
        /\ Cardinality(ImageFiles) = Cardinality(AllAcceptedJobs)

\* C23: whenever the interrupt arrives, no record of download_queue.progress
\* or post_queue.progress is the record of an exit signal, and read_queues
\* reads both files without an error.
C23_NoSentinelRecord ==
    /\ DownloadLine(NoneItem) \notin DownloadRecords
    /\ PostLine(NoneItem) \notin PostRecords
    /\ ReadDownloadLines(FileLines(dl_file.text)).status = "ok"
    /\ ReadPostLines(FileLines(post_file.text)).status = "ok"

\* the downloaders are at program points that a successful request leads to
DownloadersOkSteps ==
    \A w \in DWorkers :
        d_pc[w] \in {"not_started", "get", "inc_read", "inc_write", "exited"}

\* the positions in the walk from page 1 of the posts newer than the post
\* whose id is `id` (every position when the site no longer lists it)
NewerThan(id) ==
    LET k == FirstIndexOf(id)
    IN  IF k = 0 THEN 1..Len(PostsFrom(1)) ELSE 1..(k - 1)

\* C24: when update() has returned False, every accepted post newer than the
\* previous_newest_id it started from has been downloaded, or is recorded in
\* download_queue.progress, or is still newer than the previous_newest_id
\* that save_metadata wrote, so that the next update() meets it.
C24_UpdateSkipsNothing ==
    (c_pc = "u_returned" /\ result = "False") =>
        \A n \in NewerThan(previous_newest_id) :
            LET j == PostJob(PostsFrom(1)[n].post, PostsFrom(1)[n].page, ratings)
            IN  j.rating # <<>> =>
                    \/ stats[j.url].ok > 0
                    \/ DownloadLine(j) \in DownloadRecords
                    \/ n \in NewerThan(metadata.previous_newest_id)
====
